---- MODULE Spec2Model ----
(***************************************************************************)
(* A model of the chunk-lifecycle and text-reconstruction logic of         *)
(* ThesisTranslator: TextChunker (src/src/text_chunker.py), the marker     *)
(* transforms and the cleaning of TextCleaner (src/src/text_cleaner.py),   *)
(* MarkdownGenerator (src/src/markdown_generator.py), AITranslator         *)
(* (src/src/translator.py) and the pipeline of ThesisTranslator            *)
(* (src/src/main.py). Each component has a specification of its own; the   *)
(* pipeline runs the chunker and the translator through their actions.     *)
(*                                                                         *)
(* A Python str is modelled as a sequence of one-character strings, so     *)
(* that slicing, searching and the regular expressions of the code are     *)
(* computed character by character as the code computes them.              *)
(***************************************************************************)
EXTENDS Integers, Sequences, FiniteSets, TLC

VARIABLES
    constructed,    \* a TextChunker instance exists
    chunk_size,     \* TextChunker.chunk_size
    overlap_size,   \* TextChunker.overlap_size
    text_blocks,    \* argument of create_chunks: the texts of the TextBlocks
    merged_text,    \* local of create_chunks
    start,          \* local of create_chunks
    chunks,         \* local of create_chunks, its return value
    pc,             \* position in TextChunker: "new", "ready", "merged", "loop",
                    \* "done" ("idle" when the chunker is not in use)
    cleaned_text,   \* argument of TextCleaner.process_cleaned_output
    title_out,      \* process_title_tags(cleaned_text)
    end_out,        \* process_end_tags(cleaned_text)
    processed_text, \* process_cleaned_output(cleaned_text)
    reprocessed,    \* process_cleaned_output(processed_text)
    cpc,            \* position in the marker processor: "input", then "title",
                    \* "end", "cleaned" or "again" ("idle" when not in use)
    translated_chunks, \* argument of MarkdownGenerator.generate_markdown
    markdown_content,  \* its return value
    mpc,            \* position in the generator: "input", "done" ("idle" when
                    \* not in use)
    document,       \* argument content of add_metadata, create_table_of_contents and
                    \* validate_markdown
    metadata,       \* argument of add_metadata: the items of the dict in
                    \* insertion order, <<>> for None and for {}
    meta_out,       \* add_metadata(document, metadata)
    toc_out,        \* create_table_of_contents(document)
    validation,     \* validate_markdown(document)
    dpc,            \* position in the document functions: "input", then
                    \* "meta", "toc" or "valid" ("idle" when not in use)
    total_translations,      \* AITranslator.total_translations
    successful_translations, \* AITranslator.successful_translations
    failed_translations,     \* AITranslator.failed_translations
    retry_text,     \* argument text of translate_with_retry
    max_retries,    \* argument max_retries of translate_with_retry
    attempt,        \* loop variable of translate_with_retry
    retry_result,   \* how translate_with_retry ended: a str returned, None
                    \* returned, or a TranslationError raised
    text_chunks,    \* argument of translate_chunks
    chunk_index,    \* loop variable i of translate_chunks
    translations,   \* local translated_chunks of translate_chunks, its result
    api_calls,      \* the calls of client.chat.completions.create so far: the
                    \* text sent, whether the call succeeded, and the reply
                    \* or the message of the exception
    tpc,            \* position in the translator: "ready", then "retry",
                    \* "returned", "raised" in translate_with_retry, "chunks",
                    \* "chunks_done" in translate_chunks ("idle" when not in
                    \* use)
    total_cleanings,      \* TextCleaner.total_cleanings
    successful_cleanings, \* TextCleaner.successful_cleanings
    failed_cleanings,     \* TextCleaner.failed_cleanings
    include_metadata,     \* ThesisTranslator.include_metadata
    include_toc,          \* ThesisTranslator.include_toc
    extraction,     \* how extractor.get_reading_order() ended in
                    \* _translate_pdf_file, and the texts of its blocks
    cleaned_chunks, \* local of _translate_pdf_file and of clean_text_chunks
    processed_chunks,  \* local of _translate_pdf_file
    assembled,      \* what generate_markdown returned in _translate_pdf_file
    final_content,  \* local markdown_content of _translate_pdf_file when it
                    \* is validated and written
    validation_result, \* local of _translate_pdf_file
    output_file,    \* the file at output_path
    returned,       \* what translate_pdf returned: "True", "False", or
                    \* "none" while it runs
    ppc,            \* position in _translate_pdf_file: "start", "split",
                    \* "clean", "process", "translate", "write", "done"
                    \* ("idle" when not in use)
    tasks,          \* global tasks of web_app_fastapi: task id -> task record
    task_logs,      \* global task_logs: task id -> list of log entries
    handler_logs,   \* TaskLogger.logs of the handler of the background task
    handler_attached,  \* the TaskLogger is among the handlers of the root logger
    pending_exception, \* an exception left the except clause of
                       \* run_translation_task and waits for its finally clause
    task_outcome,   \* how run_translation_task ended: "returned", "raised",
                    \* or "running"
    wpc,            \* position in run_translation_task: the line of the next
                    \* statement, "end" after the last ("idle" when not in use)
    response,       \* what delete_task answered: "deleted", "404", or "none"
    rpc             \* position in delete_task: "ready" before the request, the
                    \* line of the next statement, "done" ("idle" when not in use)

chunkerVars == <<constructed, chunk_size, overlap_size, text_blocks,
                 merged_text, start, chunks, pc>>
cleanerVars == <<cleaned_text, title_out, end_out, processed_text,
                 reprocessed, cpc>>
markdownVars == <<translated_chunks, markdown_content, mpc>>
documentVars == <<document, metadata, meta_out, toc_out, validation, dpc>>
translatorVars == <<total_translations, successful_translations,
                    failed_translations, retry_text, max_retries, attempt,
                    retry_result, text_chunks, chunk_index, translations,
                    api_calls, tpc>>
pipelineVars == <<total_cleanings, successful_cleanings, failed_cleanings,
                  include_metadata, include_toc, extraction, cleaned_chunks,
                  processed_chunks, assembled, final_content,
                  validation_result, output_file, returned, ppc>>
webVars == <<tasks, task_logs, handler_logs, handler_attached,
             pending_exception, task_outcome, wpc, response, rpc>>
vars == <<chunkerVars, cleanerVars, markdownVars, documentVars, translatorVars,
          pipelineVars, webVars>>

\* what the actions of one component leave alone
notChunkerVars ==
    <<cleanerVars, markdownVars, documentVars, translatorVars, pipelineVars,
      webVars>>
notCleanerVars ==
    <<chunkerVars, markdownVars, documentVars, translatorVars, pipelineVars,
      webVars>>
notMarkdownVars ==
    <<chunkerVars, cleanerVars, documentVars, translatorVars, pipelineVars,
      webVars>>
notDocumentVars ==
    <<chunkerVars, cleanerVars, markdownVars, translatorVars, pipelineVars,
      webVars>>
notTranslatorVars ==
    <<chunkerVars, cleanerVars, markdownVars, documentVars, pipelineVars,
      webVars>>
notPipelineVars == <<cleanerVars, markdownVars, documentVars, webVars>>
notWebVars ==
    <<chunkerVars, cleanerVars, markdownVars, documentVars, translatorVars,
      pipelineVars>>

\* the state of a component that is not in use
ChunkerIdle ==
    /\ constructed = FALSE
    /\ chunk_size = 0
    /\ overlap_size = 0
    /\ text_blocks = <<>>
    /\ merged_text = <<>>
    /\ start = 0
    /\ chunks = <<>>
    /\ pc = "idle"

CleanerIdle ==
    /\ cleaned_text = <<>>
    /\ title_out = <<>>
    /\ end_out = <<>>
    /\ processed_text = <<>>
    /\ reprocessed = <<>>
    /\ cpc = "idle"

MarkdownIdle ==
    /\ translated_chunks = <<>>
    /\ markdown_content = <<>>
    /\ mpc = "idle"

NoValidation == [is_valid |-> FALSE, errors |-> <<>>, warnings |-> <<>>]

DocumentIdle ==
    /\ document = <<>>
    /\ metadata = <<>>
    /\ meta_out = <<>>
    /\ toc_out = <<>>
    /\ validation = NoValidation
    /\ dpc = "idle"

NoResult == [kind |-> "none", value |-> <<>>]

\* the counters and locals of a translator just constructed
TranslatorFresh ==
    /\ total_translations = 0
    /\ successful_translations = 0
    /\ failed_translations = 0
    /\ retry_text = <<>>
    /\ max_retries = 0
    /\ attempt = 0
    /\ retry_result = NoResult
    /\ text_chunks = <<>>
    /\ chunk_index = 0
    /\ translations = <<>>
    /\ api_calls = <<>>

TranslatorIdle ==
    /\ TranslatorFresh
    /\ tpc = "idle"

NoExtraction == [state |-> "none", blocks |-> <<>>]
NoFile == [exists |-> FALSE, content |-> <<>>]

\* the counters of a TextCleaner just constructed and the locals of
\* _translate_pdf_file before it runs
PipelineFresh ==
    /\ total_cleanings = 0
    /\ successful_cleanings = 0
    /\ failed_cleanings = 0
    /\ extraction = NoExtraction
    /\ cleaned_chunks = <<>>
    /\ processed_chunks = <<>>
    /\ assembled = <<>>
    /\ final_content = <<>>
    /\ validation_result = NoValidation
    /\ output_file = NoFile
    /\ returned = "none"

PipelineIdle ==
    /\ PipelineFresh
    /\ include_metadata = FALSE
    /\ include_toc = FALSE
    /\ ppc = "idle"

\* an empty dict
EmptyDict == [k \in {} |-> <<>>]

WebIdle ==
    /\ tasks = EmptyDict
    /\ task_logs = EmptyDict
    /\ handler_logs = <<>>
    /\ handler_attached = FALSE
    /\ pending_exception = FALSE
    /\ task_outcome = "running"
    /\ wpc = "idle"
    /\ response = "none"
    /\ rpc = "idle"

(***************************************************************************)
(* Bounds of the model.                                                    *)
(***************************************************************************)
MaxChunkSize == 4
MaxOverlap == 3
MaxBlocks == 3

(***************************************************************************)
(* Python built-ins on str and int.                                        *)
(***************************************************************************)
Min(a, b) == IF a <= b THEN a ELSE b
Max(a, b) == IF a >= b THEN a ELSE b

\* s[lo:hi]: a negative index counts from the end, both are clamped to 0..len(s)
PySlice(s, lo, hi) ==
    LET n == Len(s)
        a == IF lo < 0 THEN Max(n + lo, 0) ELSE Min(lo, n)
        b == IF hi < 0 THEN Max(n + hi, 0) ELSE Min(hi, n)
    IN  IF a >= b THEN <<>> ELSE SubSeq(s, a + 1, b)

\* s[lo:]
PySliceFrom(s, lo) == PySlice(s, lo, Len(s))

IsSpace(c) == c \in {" ", "\n", "\t"}

\* s.strip()
RECURSIVE LStrip(_)
LStrip(s) == IF s # <<>> /\ IsSpace(Head(s)) THEN LStrip(Tail(s)) ELSE s
RECURSIVE RStrip(_)
RStrip(s) ==
    IF s # <<>> /\ IsSpace(s[Len(s)]) THEN RStrip(SubSeq(s, 1, Len(s) - 1)) ELSE s
Strip(s) == RStrip(LStrip(s))

\* sep.join(parts)
RECURSIVE Join(_, _)
Join(sep, parts) ==
    IF parts = <<>> THEN <<>>
    ELSE IF Len(parts) = 1 THEN parts[1]
    ELSE parts[1] \o sep \o Join(sep, Tail(parts))

\* s.startswith(p, i) with a 1-based position i
StartsWithAt(s, p, i) ==
    /\ i >= 1
    /\ i + Len(p) - 1 <= Len(s)
    /\ SubSeq(s, i, i + Len(p) - 1) = p

\* p in s
Contains(s, p) == \E i \in 1..(Len(s) + 1) : StartsWithAt(s, p, i)

(***************************************************************************)
(* TextChunker                                                             *)
(***************************************************************************)

\* the texts the extractor's blocks carry in this model
BlockTexts == { <<>>, <<" ">>, <<"a", "b">>, <<" ", "c">> }

\* the merged text of the documented scenario: "abcdefghij"
ScenarioText == <<"a", "b", "c", "d", "e", "f", "g", "h", "i", "j">>

RECURSIVE SeqsUpTo(_, _)
SeqsUpTo(S, n) ==
    IF n = 0 THEN { <<>> }
    ELSE LET shorter == SeqsUpTo(S, n - 1)
         IN  shorter \cup { Append(q, x) : q \in { r \in shorter : Len(r) = n - 1 }, x \in S }

\* the block lists create_chunks and merge_blocks_to_string are called with
BlockLists == SeqsUpTo(BlockTexts, MaxBlocks) \cup { <<ScenarioText>> }

\* [block.text for block in blocks if block.text.strip()]
RECURSIVE NonBlankTexts(_)
NonBlankTexts(blocks) ==
    IF blocks = <<>> THEN <<>>
    ELSE IF Strip(Head(blocks)) # <<>>
         THEN <<Head(blocks)>> \o NonBlankTexts(Tail(blocks))
         ELSE NonBlankTexts(Tail(blocks))

\* joining without dropping the blank blocks
MergeNoFilter(blocks) == Join(<<" ">>, blocks)

merge_blocks_to_string(blocks) ==
    IF blocks = <<>> THEN <<>>
    ELSE Join(<<" ">>, NonBlankTexts(blocks))

\* TextChunker(chunk_size, overlap_size): the constructor stores what it is given
Construct(cs, ov) ==
    /\ pc = "new"
    /\ constructed' = TRUE
    /\ chunk_size' = cs
    /\ overlap_size' = ov
    /\ pc' = "ready"
    /\ UNCHANGED <<text_blocks, merged_text, start, chunks>>
    /\ UNCHANGED notChunkerVars

\* merge_blocks_to_string called on its own
MergeBlocks(blocks) ==
    /\ pc = "ready"
    /\ text_blocks' = blocks
    /\ merged_text' = merge_blocks_to_string(blocks)
    /\ pc' = "merged"
    /\ UNCHANGED <<constructed, chunk_size, overlap_size, start, chunks>>
    /\ UNCHANGED notChunkerVars

\* create_chunks up to the head of its loop
CreateChunksBegin(blocks) ==
    /\ pc = "ready"
    /\ text_blocks' = blocks
    /\ chunks' = <<>>
    /\ start' = 0
    /\ IF blocks = <<>>
       THEN /\ merged_text' = <<>>
            /\ pc' = "done"
       ELSE /\ merged_text' = merge_blocks_to_string(blocks)
            /\ pc' = "loop"
    /\ UNCHANGED <<constructed, chunk_size, overlap_size>>
    /\ UNCHANGED notChunkerVars

\* the most chunks a run is followed for: more than any text of BlockLists
\* gives with parameters that make the window advance
IterCap == 3 * MaxBlocks + Len(ScenarioText) + 2

\* a window one character too wide
WindowEndTooWide(s) == Min(s + chunk_size + 1, Len(merged_text))

\* end = min(start + self.chunk_size, len(merged_text))
WindowEnd(s) == Min(s + chunk_size, Len(merged_text))

\* an overlap one character too short: the next window skips a character
NextStartSkip(end) ==
    LET s == end - overlap_size + 1
    IN  IF s >= end THEN end ELSE s

\* stepping back by the window instead of by the overlap: no progress
NextStartStuck(end) == end - chunk_size

\* start after a chunk that ended at end
NextStart(end) ==
    LET s == end - overlap_size
    IN  IF s >= end THEN end ELSE s

\* the loop test and one iteration of the loop
LoopStep ==
    /\ pc = "loop"
    /\ Len(chunks) < IterCap
    /\ IF start < Len(merged_text)
       THEN LET end == WindowEnd(start)
                chunk == PySlice(merged_text, start, end)
                nstart == NextStart(end)
            IN  /\ start' = nstart
                /\ IF Len(merged_text) - nstart <= overlap_size
                   THEN /\ chunks' = IF nstart < Len(merged_text)
                                     THEN chunks \o <<chunk, PySliceFrom(merged_text, nstart)>>
                                     ELSE Append(chunks, chunk)
                        /\ pc' = "done"
                   ELSE /\ chunks' = Append(chunks, chunk)
                        /\ pc' = "loop"
       ELSE /\ pc' = "done"
            /\ UNCHANGED <<start, chunks>>
    /\ UNCHANGED <<constructed, chunk_size, overlap_size, text_blocks, merged_text>>
    /\ UNCHANGED notChunkerVars

\* no TextChunker yet; the other components are not in use
InitChunker ==
    /\ constructed = FALSE
    /\ chunk_size = 0
    /\ overlap_size = 0
    /\ text_blocks = <<>>
    /\ merged_text = <<>>
    /\ start = 0
    /\ chunks = <<>>
    /\ pc = "new"
    /\ CleanerIdle
    /\ MarkdownIdle
    /\ DocumentIdle
    /\ TranslatorIdle
    /\ PipelineIdle
    /\ WebIdle

NextChunker ==
    \/ \E cs \in 0..MaxChunkSize, ov \in 0..MaxOverlap : Construct(cs, ov)
    \/ \E blocks \in BlockLists : MergeBlocks(blocks)
    \/ \E blocks \in BlockLists : CreateChunksBegin(blocks)
    \/ LoopStep

SpecChunker == InitChunker /\ [][NextChunker]_vars

\* the loop of create_chunks runs on: nothing in the code suspends it
FairSpecChunker == SpecChunker /\ WF_vars(LoopStep)

(***************************************************************************)
(* TextCleaner: the marker transforms                                      *)
(***************************************************************************)
TitleOpen == <<"<", "T", "i", "t", "l", "e", ">">>
TitleClose == <<"<", "/", "T", "i", "t", "l", "e", ">">>
EndTag == <<"<", "E", "n", "d", ">">>
Heading2 == <<"\n", "#", "#", " ">>
Newline == <<"\n">>

\* the places at or after position from where </Title> closes a title opened
\* just before from: '.' of (.*?) matches any character but a newline
TitleCloses(s, from) ==
    { j \in from..Len(s) :
        /\ StartsWithAt(s, TitleClose, j)
        /\ \A k \in from..(j - 1) : s[k] # "\n" }

SetMin(S) == CHOOSE x \in S : \A y \in S : x <= y
SetMax(S) == CHOOSE x \in S : \A y \in S : x >= y

\* re.sub(r'<Title>(.*?)</Title>', r'\n## \1\n', s) from position i on: the
\* leftmost match, with the shortest title, then on after the match
RECURSIVE SubTitleFrom(_, _)
SubTitleFrom(s, i) ==
    LET matches == { m \in i..Len(s) :
                       /\ StartsWithAt(s, TitleOpen, m)
                       /\ TitleCloses(s, m + Len(TitleOpen)) # {} }
    IN  IF matches = {} THEN SubSeq(s, i, Len(s))
        ELSE LET m == SetMin(matches)
                 from == m + Len(TitleOpen)
                 j == SetMin(TitleCloses(s, from))
             IN  SubSeq(s, i, m - 1) \o Heading2 \o SubSeq(s, from, j - 1)
                     \o Newline \o SubTitleFrom(s, j + Len(TitleClose))
SubTitle(s) == SubTitleFrom(s, 1)

\* the last position of the run of whitespace that follows position i
RECURSIVE SpaceRunEnd(_, _)
SpaceRunEnd(s, i) ==
    IF i + 1 <= Len(s) /\ IsSpace(s[i + 1]) THEN SpaceRunEnd(s, i + 1) ELSE i

\* the newlines in the run of whitespace that follows position i
NewlinesAfter(s, i) == { j \in (i + 1)..SpaceRunEnd(s, i) : s[j] = "\n" }

\* re.sub(r'\n\s*\n', '\n\n', s) from position i on: \s* is greedy, so a match
\* runs from a newline to the last newline of the whitespace that follows it
RECURSIVE CollapseBlankFrom(_, _)
CollapseBlankFrom(s, i) ==
    LET matches == { m \in i..Len(s) : s[m] = "\n" /\ NewlinesAfter(s, m) # {} }
    IN  IF matches = {} THEN SubSeq(s, i, Len(s))
        ELSE LET m == SetMin(matches)
             IN  SubSeq(s, i, m - 1) \o <<"\n", "\n">>
                     \o CollapseBlankFrom(s, SetMax(NewlinesAfter(s, m)) + 1)
CollapseBlank(s) == CollapseBlankFrom(s, 1)

\* s.replace('<End>', '\n')
RECURSIVE ReplaceEndFrom(_, _)
ReplaceEndFrom(s, i) ==
    LET matches == { m \in i..Len(s) : StartsWithAt(s, EndTag, m) }
    IN  IF matches = {} THEN SubSeq(s, i, Len(s))
        ELSE SubSeq(s, i, SetMin(matches) - 1) \o Newline
                 \o ReplaceEndFrom(s, SetMin(matches) + Len(EndTag))
ReplaceEnd(s) == ReplaceEndFrom(s, 1)

process_title_tags(text) ==
    IF text = <<>> THEN <<>>
    ELSE Strip(CollapseBlank(SubTitle(text)))

process_end_tags(text) ==
    IF text = <<>> THEN <<>>
    ELSE CollapseBlank(ReplaceEnd(text))

process_cleaned_output(text) ==
    IF text = <<>> THEN <<>>
    ELSE process_end_tags(process_title_tags(text))

\* the pieces the texts given to the marker processor are made of
Pieces == { <<"a">>, <<" ">>, Newline, TitleOpen, TitleClose, EndTag }
MaxPieces == 4

RECURSIVE Flatten(_)
Flatten(ss) == IF ss = <<>> THEN <<>> ELSE Head(ss) \o Flatten(Tail(ss))

\* the words of the sentences around a title
Words == { <<"a">>, <<"b", " ", "c">> }

\* "A <Title>X</Title> B"
TitleSentence(A, X, B) == A \o <<" ">> \o TitleOpen \o X \o TitleClose \o <<" ">> \o B

\* "Some text <Title>Introduction</Title> more text" of test_process_title_tags
TestSentence ==
    TitleSentence(<<"S", "o", "m", "e", " ", "t", "e", "x", "t">>,
                  <<"I", "n", "t", "r", "o", "d", "u", "c", "t", "i", "o", "n">>,
                  <<"m", "o", "r", "e", " ", "t", "e", "x", "t">>)

\* "a\n \nb": two lines with a line of one space between them
BlankLineText == <<"a", "\n", " ", "\n", "b">>

CleanerInputs ==
    { Flatten(ps) : ps \in SeqsUpTo(Pieces, MaxPieces) }
        \cup { TitleSentence(A, X, B) : A \in Words, X \in Words, B \in Words }
        \cup { TestSentence, BlankLineText }

\* process_title_tags(cleaned_text)
ProcessTitleTags ==
    /\ cpc = "input"
    /\ title_out' = process_title_tags(cleaned_text)
    /\ cpc' = "title"
    /\ UNCHANGED <<cleaned_text, end_out, processed_text, reprocessed>>
    /\ UNCHANGED notCleanerVars

\* process_end_tags(cleaned_text)
ProcessEndTags ==
    /\ cpc = "input"
    /\ end_out' = process_end_tags(cleaned_text)
    /\ cpc' = "end"
    /\ UNCHANGED <<cleaned_text, title_out, processed_text, reprocessed>>
    /\ UNCHANGED notCleanerVars

\* process_cleaned_output(cleaned_text)
ProcessCleanedOutput ==
    /\ cpc = "input"
    /\ processed_text' = process_cleaned_output(cleaned_text)
    /\ cpc' = "cleaned"
    /\ UNCHANGED <<cleaned_text, title_out, end_out, reprocessed>>
    /\ UNCHANGED notCleanerVars

\* process_cleaned_output applied to its own result
ProcessAgain ==
    /\ cpc = "cleaned"
    /\ reprocessed' = process_cleaned_output(processed_text)
    /\ cpc' = "again"
    /\ UNCHANGED <<cleaned_text, title_out, end_out, processed_text>>
    /\ UNCHANGED notCleanerVars

\* a TextCleaner with a text to process; the other components are not in use
InitCleaner ==
    /\ cleaned_text \in CleanerInputs
    /\ title_out = <<>>
    /\ end_out = <<>>
    /\ processed_text = <<>>
    /\ reprocessed = <<>>
    /\ cpc = "input"
    /\ ChunkerIdle
    /\ MarkdownIdle
    /\ DocumentIdle
    /\ TranslatorIdle
    /\ PipelineIdle
    /\ WebIdle

NextCleaner ==
    \/ ProcessTitleTags
    \/ ProcessEndTags
    \/ ProcessCleanedOutput
    \/ ProcessAgain

SpecCleaner == InitCleaner /\ [][NextCleaner]_vars

(***************************************************************************)
(* MarkdownGenerator                                                       *)
(***************************************************************************)

\* re.sub(r'\n\s*\n\s*\n', '\n\n', s) from position i on: a match runs from a
\* newline to the last newline of the whitespace that follows it, when that
\* whitespace holds two newlines or more
RECURSIVE CollapseTripleFrom(_, _)
CollapseTripleFrom(s, i) ==
    LET matches == { j \in i..Len(s) :
                       s[j] = "\n" /\ Cardinality(NewlinesAfter(s, j)) >= 2 }
    IN  IF matches = {} THEN SubSeq(s, i, Len(s))
        ELSE LET m == SetMin(matches)
             IN  SubSeq(s, i, m - 1) \o <<"\n", "\n">>
                     \o CollapseTripleFrom(s, SetMax(NewlinesAfter(s, m)) + 1)
CollapseTriple(s) == CollapseTripleFrom(s, 1)

\* s.split('\n') from position i on: the text up to the next newline, then
\* the lines after it
RECURSIVE SplitLinesFrom(_, _)
SplitLinesFrom(s, i) ==
    LET breaks == { j \in i..Len(s) : s[j] = "\n" }
    IN  IF breaks = {} THEN <<SubSeq(s, i, Len(s))>>
        ELSE <<SubSeq(s, i, SetMin(breaks) - 1)>>
                 \o SplitLinesFrom(s, SetMin(breaks) + 1)
SplitLines(s) == SplitLinesFrom(s, 1)

\* chunks separated by a line break only
ChunkSeparatorOneNewline == <<"\n">>

\* the separator generate_markdown joins the chunks with
ChunkSeparator == <<"\n", "\n">>

\* s.startswith('#')
StartsWithHash(s) == s # <<>> /\ s[1] = "#"

\* the test that decides whether generate_markdown adds a title
NeedsTitle(content) == ~StartsWithHash(Strip(content))

\* the first line made a second-level heading
TitleLineLevelTwo(first_line) == <<"#", "#", " ">> \o first_line

\* f"# {first_line}": the first line made the title of the document
TitleLine(first_line) == <<"#", " ">> \o first_line

generate_markdown(tchunks) ==
    IF tchunks = <<>> THEN <<>>
    ELSE LET content == CollapseTriple(Join(ChunkSeparator, tchunks))
         IN  IF NeedsTitle(content)
             THEN LET lines == SplitLines(Strip(content))
                      first_line == Strip(lines[1])
                  IN  IF first_line # <<>> /\ ~StartsWithHash(first_line)
                      THEN TitleLine(first_line) \o <<"\n", "\n">>
                               \o Join(Newline, Tail(lines))
                      ELSE content
             ELSE content

\* the chunks of the documented scenario
ChunkTitle == <<"#", " ", "T", "i", "t", "l", "e">>
ChunkBody == <<"B", "o", "d", "y", " ", "t", "e", "x", "t", ".">>

\* the translated chunks generate_markdown is called with in this model
MdChunks ==
    { <<>>, ChunkTitle, ChunkBody, Newline, <<" ">>, <<"#", "\n">>,
      <<"x", "\n", "\n", "y">>, <<"\n", "z">> }
MaxMdChunks == 3

\* generate_markdown(translated_chunks)
GenerateMarkdown ==
    /\ mpc = "input"
    /\ markdown_content' = generate_markdown(translated_chunks)
    /\ mpc' = "done"
    /\ UNCHANGED translated_chunks
    /\ UNCHANGED notMarkdownVars

\* a MarkdownGenerator with the chunks to assemble; the other components are
\* not in use
InitMarkdown ==
    /\ translated_chunks \in SeqsUpTo(MdChunks, MaxMdChunks)
    /\ markdown_content = <<>>
    /\ mpc = "input"
    /\ ChunkerIdle
    /\ CleanerIdle
    /\ DocumentIdle
    /\ TranslatorIdle
    /\ PipelineIdle
    /\ WebIdle

NextMarkdown ==
    \/ GenerateMarkdown

SpecMarkdown == InitMarkdown /\ [][NextMarkdown]_vars

(***************************************************************************)
(* MarkdownGenerator: front matter, table of contents, validation          *)
(*                                                                         *)
(* A character outside ASCII is written as one element named after its    *)
(* code point: "U76EE" is the character U+76EE.                            *)
(***************************************************************************)

UpperCase == <<"A", "B", "C", "D", "E", "F", "G", "H", "I", "J", "K", "L",
               "M", "N", "O", "P", "Q", "R", "S", "T", "U", "V", "W", "X",
               "Y", "Z">>
LowerCase == <<"a", "b", "c", "d", "e", "f", "g", "h", "i", "j", "k", "l",
               "m", "n", "o", "p", "q", "r", "s", "t", "u", "v", "w", "x",
               "y", "z">>
Digits == {"0", "1", "2", "3", "4", "5", "6", "7", "8", "9"}

\* the characters of the range \u4e00-\u9fff that occur in this model
CJK ==
    {"U76EE", "U5F55", "U7FFB", "U8BD1", "U9519", "U8BEF", "U5931", "U8D25",
     "U8BBA", "U6587"}

\* \w of a str pattern: letters (those of CJK included), digits, underscore
IsWordChar(c) ==
    \/ \E i \in 1..Len(UpperCase) : c = UpperCase[i] \/ c = LowerCase[i]
    \/ c \in Digits
    \/ c = "_"
    \/ c \in CJK

\* c.lower()
LowerChar(c) ==
    IF \E i \in 1..Len(UpperCase) : c = UpperCase[i]
    THEN LowerCase[CHOOSE i \in 1..Len(UpperCase) : c = UpperCase[i]]
    ELSE c

\* a character that [^\w\u4e00-\u9fff\- ] does not match
AnchorKeeps(c) == IsWordChar(c) \/ c \in CJK \/ c = "-" \/ c = " "

\* re.sub(r'[^\w\u4e00-\u9fff\- ]', '', title).strip().lower().replace(' ', '-')
Anchor(title) ==
    LET kept == Strip(SelectSeq(title, AnchorKeeps))
    IN  [i \in 1..Len(kept) |->
            IF LowerChar(kept[i]) = " " THEN "-" ELSE LowerChar(kept[i])]

\* ^ under re.MULTILINE: the start of the text or the position after a newline
AtLineStart(s, i) == i = 1 \/ s[i - 1] = "\n"

\* the number of '#' from position i on
RECURSIVE HashRun(_, _)
HashRun(s, i) ==
    IF i <= Len(s) /\ s[i] = "#" THEN 1 + HashRun(s, i + 1) ELSE 0

\* the last position of the line that holds position i
LineEnd(s, i) ==
    SetMin({ j \in i..Len(s) : j = Len(s) \/ s[j + 1] = "\n" })

\* where (.+) can begin in a match of ^(#+)\s+(.+)$ that starts at i with h
\* '#': after one or more whitespace characters, newlines included, on a
\* character that is not a newline
TitleStarts(s, i, h) ==
    { k + 1 : k \in { j \in (i + h)..SpaceRunEnd(s, i + h - 1) :
                        j + 1 <= Len(s) /\ s[j + 1] # "\n" } }

\* re.findall(r'^(#+)\s+(.+)$', s, re.MULTILINE) from position i on, as
\* <<level, title>> pairs: \s+ is greedy, so the title begins as late as it
\* can, and runs to the end of its line; the scan takes the leftmost match
\* and goes on after it
RECURSIVE FindTitlesFrom(_, _)
FindTitlesFrom(s, i) ==
    LET matches == { j \in i..Len(s) :
                       /\ AtLineStart(s, j)
                       /\ HashRun(s, j) >= 1
                       /\ TitleStarts(s, j, HashRun(s, j)) # {} }
    IN  IF matches = {} THEN <<>>
        ELSE LET m == SetMin(matches)
                 h == HashRun(s, m)
                 t == SetMax(TitleStarts(s, m, h))
                 e == LineEnd(s, t)
             IN  << <<h, SubSeq(s, t, e)>> >> \o FindTitlesFrom(s, e + 1)
FindTitles(s) == FindTitlesFrom(s, 1)

\* "## " and the two characters of the heading of the table of contents
TocHeading == <<"#", "#", " ", "U76EE", "U5F55">>

\* '  ' * n
RECURSIVE Indent(_)
Indent(n) == IF n <= 0 THEN <<>> ELSE <<" ", " ">> \o Indent(n - 1)

\* f"{'  ' * (level_num - 1)}- [{title}](#{anchor})"
TocEntry(level_num, title) ==
    Indent(level_num - 1) \o <<"-", " ", "[">> \o title
        \o <<"]", "(", "#">> \o Anchor(title) \o <<")">>

\* the lines of the table of contents for the titles found
TocLines(titles) ==
    <<TocHeading, <<>>>>
        \o [i \in 1..Len(titles) |-> TocEntry(titles[i][1], titles[i][2])]
        \o << <<>> >>

\* the loop that copies the lines and puts toc before the first one that
\* starts with '#', or in front of all lines when there is none
InsertToc(lines, toc) ==
    LET hashed == { j \in 1..Len(lines) : StartsWithHash(lines[j]) }
    IN  IF hashed = {} THEN <<toc>> \o lines
        ELSE SubSeq(lines, 1, SetMin(hashed) - 1) \o <<toc>>
                 \o SubSeq(lines, SetMin(hashed), Len(lines))

create_table_of_contents(c) ==
    IF c = <<>> THEN <<>>
    ELSE LET titles == FindTitles(c)
         IN  IF titles = <<>> THEN <<>>
             ELSE Join(Newline, InsertToc(SplitLines(c),
                                          Join(Newline, TocLines(titles))))

\* the delimiter line of the front matter
FrontMatterFence == <<"-", "-", "-">>

\* f"{key}: {value}" for an item <<key, value>>
MetadataLine(item) == item[1] \o <<":", " ">> \o item[2]

add_metadata(c, md) ==
    IF c = <<>> THEN <<>>
    ELSE IF md = <<>> THEN c
    ELSE Join(Newline, <<FrontMatterFence>>
                           \o [i \in 1..Len(md) |-> MetadataLine(md[i])]
                           \o <<FrontMatterFence, <<>>>>) \o c

\* the messages of validate_markdown, each a str written by the code points
\* of its characters
ErrEmptyContent == "U5185U5BB9U4E3AU7A7A"
WarnTooShort == "U5185U5BB9U8FC7U77ED"
WarnNoTitle == "U672AU627EU5230U6807U9898"
ErrFormulaUnpaired == "U6570U5B66U516CU5F0FU6807U8BB0$$U672AU6B63U786EU914DU5BF9"

\* the length under which validate_markdown warns that the content is short
MinContentLength == 10

\* re.findall(r'^#+\s+.*$', c, re.MULTILINE) finds something: some line
\* starts with '#'s that a whitespace character follows
HasTitleMatch(c) ==
    \E i \in 1..Len(c) :
        /\ AtLineStart(c, i)
        /\ HashRun(c, i) >= 1
        /\ i + HashRun(c, i) <= Len(c)
        /\ IsSpace(c[i + HashRun(c, i)])

\* c.count('$$') from position i on: occurrences that do not overlap, counted
\* from the left
RECURSIVE CountFormulaMarksFrom(_, _)
CountFormulaMarksFrom(c, i) ==
    LET marks == { j \in i..(Len(c) - 1) : c[j] = "$" /\ c[j + 1] = "$" }
    IN  IF marks = {} THEN 0
        ELSE 1 + CountFormulaMarksFrom(c, SetMin(marks) + 2)
CountFormulaMarks(c) == CountFormulaMarksFrom(c, 1)

\* any formula mark at all counts as unpaired
FormulaUnpairedIfAny(formula_count) == formula_count # 0

\* formula_count % 2 != 0
FormulaUnpaired(formula_count) == formula_count % 2 # 0

\* valid whatever the errors
IsValidAlways(errors) == TRUE

\* len(errors) == 0
IsValid(errors) == Len(errors) = 0

validate_markdown(c) ==
    IF c = <<>>
    THEN [is_valid |-> FALSE, errors |-> <<ErrEmptyContent>>, warnings |-> <<>>]
    ELSE LET warnings ==
                 (IF Len(Strip(c)) < MinContentLength
                  THEN <<WarnTooShort>> ELSE <<>>)
                 \o (IF ~HasTitleMatch(c) THEN <<WarnNoTitle>> ELSE <<>>)
             errors ==
                 IF FormulaUnpaired(CountFormulaMarks(c))
                 THEN <<ErrFormulaUnpaired>> ELSE <<>>
         IN  [is_valid |-> IsValid(errors), errors |-> errors,
              warnings |-> warnings]

\* the lines the documents of this model are made of
DocLines ==
    { <<"#", " ", "T">>,
      <<"#", "#", " ", "T", " ">>,
      <<"#", " ", "A", " ", "b", "!">>,
      <<"#">>,
      <<"#", "x">>,
      TocHeading,
      <<>>,
      <<"B", "o", "d", "y">>,
      <<"$", "$", "a", "$", "$">>,
      <<"$", "$", "a">>,
      <<"$", "$", "$">> }
MaxDocLines == 2

\* the documents of the documented scenarios
DocTitleBody == <<"#", " ", "T", "\n", "B", "o", "d", "y">>
DocFormulaPaired ==
    <<"#", " ", "T", "\n", "$", "$", "a", "$", "$", "\n", "B", "o", "d", "y">>
DocFormulaUnpaired ==
    <<"#", " ", "T", "\n", "$", "$", "a", "\n", "B", "o", "d", "y">>

\* a document whose second heading is empty, as process_title_tags writes it
\* for "<Title></Title>"
DocEmptyHeading ==
    <<"#", " ", "T", "\n", "#", "#", " ", "\n", "B", "o", "d", "y">>

\* the documents the functions are called with in this model: "" and the
\* texts of one to MaxDocLines lines
Documents ==
    { Join(Newline, ls) : ls \in SeqsUpTo(DocLines, MaxDocLines) }
        \cup { DocTitleBody, DocFormulaPaired, DocFormulaUnpaired,
               DocEmptyHeading }

\* the items of the metadata dicts of this model
ItemAuthor == << <<"a", "u", "t", "h", "o", "r">>, <<"A">> >>
ItemDate == << <<"d", "a", "t", "e">>, <<"D">> >>
Metadatas == { <<>>, <<ItemAuthor>>, <<ItemAuthor, ItemDate>>, <<ItemDate, ItemAuthor>> }

\* add_metadata(document, metadata)
AddMetadata ==
    /\ dpc = "input"
    /\ meta_out' = add_metadata(document, metadata)
    /\ dpc' = "meta"
    /\ UNCHANGED <<document, metadata, toc_out, validation>>
    /\ UNCHANGED notDocumentVars

\* create_table_of_contents(document)
CreateTableOfContents ==
    /\ dpc = "input"
    /\ toc_out' = create_table_of_contents(document)
    /\ dpc' = "toc"
    /\ UNCHANGED <<document, metadata, meta_out, validation>>
    /\ UNCHANGED notDocumentVars

\* validate_markdown(document)
ValidateMarkdown ==
    /\ dpc = "input"
    /\ validation' = validate_markdown(document)
    /\ dpc' = "valid"
    /\ UNCHANGED <<document, metadata, meta_out, toc_out>>
    /\ UNCHANGED notDocumentVars

\* a MarkdownGenerator with a document and a metadata dict; the other
\* components are not in use
InitDocument ==
    /\ document \in Documents
    /\ metadata \in Metadatas
    /\ meta_out = <<>>
    /\ toc_out = <<>>
    /\ validation = NoValidation
    /\ dpc = "input"
    /\ ChunkerIdle
    /\ CleanerIdle
    /\ MarkdownIdle
    /\ TranslatorIdle
    /\ PipelineIdle
    /\ WebIdle

NextDocument ==
    \/ AddMetadata
    \/ CreateTableOfContents
    \/ ValidateMarkdown

SpecDocument == InitDocument /\ [][NextDocument]_vars

(***************************************************************************)
(* AITranslator                                                            *)
(***************************************************************************)

\* the most attempts translate_with_retry is called with, and the most chunks
\* translate_chunks is called with
MaxRetries == 3
MaxTrChunks == 3

\* the texts the translator is called with in this model
TranslatorTexts == { <<>>, <<" ">>, <<"a", "b">>, <<"c">> }

\* what client.chat.completions.create does in this model: it returns a reply
\* or raises an exception with a message
ApiReplies == { <<"x">>, <<" ", "y", "\n">>, <<"z">> \o EndTag, <<"#", "x">> }
ApiErrors == { <<"E">> }
ApiOutcomes ==
    { [ok |-> TRUE, reply |-> r] : r \in ApiReplies }
        \cup { [ok |-> FALSE, reply |-> e] : e \in ApiErrors }

\* not english_text.strip()
IsBlank(t) == Strip(t) = <<>>

\* f"\u7ffb\u8bd1\u5931\u8d25: {e}", the message of the TranslationError of translate_text
TranslationFailed(e) == <<"U7FFB", "U8BD1", "U5931", "U8D25", ":", " ">> \o e

\* f"[\u7ffb\u8bd1\u9519\u8bef: {str(e)}]", what translate_chunks stores for a failed chunk
ErrorMarker(msg) ==
    <<"[", "U7FFB", "U8BD1", "U9519", "U8BEF", ":", " ">> \o msg \o <<"]">>

\* translate_text(t) when the API call, if one is made, ends as o: what the
\* function returns or raises
TranslateTextResult(t, o) ==
    IF IsBlank(t) THEN [kind |-> "str", value |-> <<>>]
    ELSE IF o.ok THEN [kind |-> "str", value |-> Strip(o.reply)]
    ELSE [kind |-> "TranslationError", value |-> TranslationFailed(o.reply)]

\* a failed call counted in total_translations only
TranslateTextCountsFailureDropped(t, o) ==
    IF IsBlank(t)
    THEN UNCHANGED <<total_translations, successful_translations,
                     failed_translations, api_calls>>
    ELSE /\ total_translations' = total_translations + 1
         /\ api_calls' = Append(api_calls, [text |-> t, ok |-> o.ok, reply |-> o.reply])
         /\ failed_translations' = failed_translations
         /\ successful_translations' =
               IF o.ok THEN successful_translations + 1 ELSE successful_translations

\* translate_text(t) when the API call, if one is made, ends as o: what the
\* function does to the counters
TranslateTextCounts(t, o) ==
    IF IsBlank(t)
    THEN UNCHANGED <<total_translations, successful_translations,
                     failed_translations, api_calls>>
    ELSE /\ total_translations' = total_translations + 1
         /\ api_calls' = Append(api_calls, [text |-> t, ok |-> o.ok, reply |-> o.reply])
         /\ IF o.ok
            THEN /\ successful_translations' = successful_translations + 1
                 /\ UNCHANGED failed_translations
            ELSE /\ failed_translations' = failed_translations + 1
                 /\ UNCHANGED successful_translations

\* translate_with_retry(t, mr) up to the head of its loop; the function ends
\* without a return statement when range(mr) is empty
TranslateWithRetryBegin(t, mr) ==
    /\ tpc = "ready"
    /\ retry_text' = t
    /\ max_retries' = mr
    /\ attempt' = 0
    /\ IF mr <= 0
       THEN /\ retry_result' = [kind |-> "None", value |-> <<>>]
            /\ tpc' = "returned"
       ELSE /\ retry_result' = NoResult
            /\ tpc' = "retry"
    /\ UNCHANGED <<total_translations, successful_translations,
                   failed_translations, text_chunks, chunk_index,
                   translations, api_calls>>
    /\ UNCHANGED notTranslatorVars

\* one iteration of the loop of translate_with_retry
RetryAttempt(o) ==
    /\ tpc = "retry"
    /\ TranslateTextCounts(retry_text, o)
    /\ LET res == TranslateTextResult(retry_text, o)
       IN  IF res.kind = "str"
           THEN /\ retry_result' = res
                /\ tpc' = "returned"
                /\ UNCHANGED attempt
           ELSE IF attempt < max_retries - 1
                THEN /\ attempt' = attempt + 1
                     /\ UNCHANGED <<retry_result, tpc>>
                ELSE /\ retry_result' = res
                     /\ tpc' = "raised"
                     /\ UNCHANGED attempt
    /\ UNCHANGED <<retry_text, max_retries, text_chunks, chunk_index,
                   translations>>
    /\ UNCHANGED notTranslatorVars

\* translate_chunks(cs) up to the head of its loop
TranslateChunksBegin(cs) ==
    /\ tpc = "ready"
    /\ text_chunks' = cs
    /\ chunk_index' = 0
    /\ translations' = <<>>
    /\ tpc' = IF cs = <<>> THEN "chunks_done" ELSE "chunks"
    /\ UNCHANGED <<total_translations, successful_translations,
                   failed_translations, retry_text, max_retries, attempt,
                   retry_result, api_calls>>
    /\ UNCHANGED notTranslatorVars

\* a failed chunk left out of the result
ChunkOutputDropFailed(outs, res) ==
    IF res.kind = "str" THEN Append(outs, res.value) ELSE outs

\* translated_chunks.append(...) of the try and of the except branch
ChunkOutput(outs, res) ==
    Append(outs, IF res.kind = "str" THEN res.value ELSE ErrorMarker(res.value))

\* one iteration of the loop of translate_chunks
TranslateChunkStep(o) ==
    /\ tpc = "chunks"
    /\ TranslateTextCounts(text_chunks[chunk_index + 1], o)
    /\ translations' =
          ChunkOutput(translations,
                      TranslateTextResult(text_chunks[chunk_index + 1], o))
    /\ chunk_index' = chunk_index + 1
    /\ tpc' = IF chunk_index + 1 = Len(text_chunks) THEN "chunks_done" ELSE "chunks"
    /\ UNCHANGED <<retry_text, max_retries, attempt, retry_result, text_chunks>>
    /\ UNCHANGED notTranslatorVars

\* an AITranslator just constructed; the other components are not in use
InitTranslator ==
    /\ TranslatorFresh
    /\ tpc = "ready"
    /\ ChunkerIdle
    /\ CleanerIdle
    /\ MarkdownIdle
    /\ DocumentIdle
    /\ PipelineIdle
    /\ WebIdle

NextTranslator ==
    \/ \E t \in TranslatorTexts, mr \in 0..MaxRetries : TranslateWithRetryBegin(t, mr)
    \/ \E o \in ApiOutcomes : RetryAttempt(o)
    \/ \E cs \in SeqsUpTo(TranslatorTexts, MaxTrChunks) : TranslateChunksBegin(cs)
    \/ \E o \in ApiOutcomes : TranslateChunkStep(o)

SpecTranslator == InitTranslator /\ [][NextTranslator]_vars

(***************************************************************************)
(* TextCleaner: cleaning a chunk with the LLM, and its fallback            *)
(***************************************************************************)

\* re.sub(r'\s+', ' ', s) from position i on
RECURSIVE CollapseSpacesFrom(_, _)
CollapseSpacesFrom(s, i) ==
    LET matches == { m \in i..Len(s) : IsSpace(s[m]) }
    IN  IF matches = {} THEN SubSeq(s, i, Len(s))
        ELSE SubSeq(s, i, SetMin(matches) - 1) \o <<" ">>
                 \o CollapseSpacesFrom(s, SpaceRunEnd(s, SetMin(matches)) + 1)
CollapseSpaces(s) == CollapseSpacesFrom(s, 1)

\* the last position of the run of digits that begins at position i
RECURSIVE DigitRunEnd(_, _)
DigitRunEnd(s, i) ==
    IF i + 1 <= Len(s) /\ s[i + 1] \in Digits THEN DigitRunEnd(s, i + 1) ELSE i

\* \b at the gap before position i: a word character on exactly one side
WordBoundary(s, i) ==
    (i - 1 >= 1 /\ IsWordChar(s[i - 1])) # (i <= Len(s) /\ IsWordChar(s[i]))

\* re.sub(r'\b\d+\s*$', '', s): a number that begins at a word boundary and
\* that only whitespace follows, up to the end of the text or to its final
\* newline
RemoveTrailingNumber(s) ==
    LET ends == { Len(s) } \cup (IF s # <<>> /\ s[Len(s)] = "\n" THEN { Len(s) - 1 } ELSE {})
        hits == { i \in 1..Len(s) :
                    /\ s[i] \in Digits
                    /\ WordBoundary(s, i)
                    /\ SpaceRunEnd(s, DigitRunEnd(s, i)) \in ends }
    IN  IF hits = {} THEN s
        ELSE LET i == SetMin(hits)
             IN  SubSeq(s, 1, i - 1)
                     \o SubSeq(s, SpaceRunEnd(s, DigitRunEnd(s, i)) + 1, Len(s))

\* re.sub(r'^\s*\d+\b', '', s): the number at the start of the text, after
\* whitespace, when it ends at a word boundary
RemoveLeadingNumber(s) ==
    LET d == SpaceRunEnd(s, 0) + 1
    IN  IF d <= Len(s) /\ s[d] \in Digits /\ WordBoundary(s, DigitRunEnd(s, d) + 1)
        THEN SubSeq(s, DigitRunEnd(s, d) + 1, Len(s))
        ELSE s

\* re.sub(r'\[\d+\]', '', s) from position i on
RECURSIVE RemoveReferencesFrom(_, _)
RemoveReferencesFrom(s, i) ==
    LET matches == { m \in i..Len(s) :
                       /\ s[m] = "["
                       /\ m + 1 <= Len(s) /\ s[m + 1] \in Digits
                       /\ DigitRunEnd(s, m + 1) + 1 <= Len(s)
                       /\ s[DigitRunEnd(s, m + 1) + 1] = "]" }
    IN  IF matches = {} THEN SubSeq(s, i, Len(s))
        ELSE SubSeq(s, i, SetMin(matches) - 1)
                 \o RemoveReferencesFrom(s, DigitRunEnd(s, SetMin(matches) + 1) + 2)
RemoveReferences(s) == RemoveReferencesFrom(s, 1)

\* TextCleaner._basic_clean
BasicClean(text_chunk) ==
    Strip(RemoveReferences(RemoveLeadingNumber(RemoveTrailingNumber(
        CollapseSpaces(Strip(text_chunk))))))

\* what the LLM does with a cleaning prompt in this model: it returns a
\* reply, with or without markers, or the call raises
CleanReplies ==
    { TitleOpen \o <<"T">> \o TitleClose \o <<"a">> \o EndTag, <<"b", " ">> }
CleanOutcomes ==
    { [ok |-> TRUE, reply |-> r] : r \in CleanReplies }
        \cup { [ok |-> FALSE, reply |-> e] : e \in ApiErrors }

\* clean_text_chunk(chunk) when the API call, if one is made, ends as o: the
\* trimmed reply, or the basic cleaning of the chunk when the call failed
CleanTextChunkResult(chunk, o) ==
    IF IsBlank(chunk) THEN <<>>
    ELSE IF o.ok THEN Strip(o.reply)
    ELSE BasicClean(chunk)

\* clean_text_chunk(chunk): what it does to the counters
CleanTextChunkCounts(chunk, o) ==
    IF IsBlank(chunk)
    THEN UNCHANGED <<total_cleanings, successful_cleanings, failed_cleanings>>
    ELSE /\ total_cleanings' = total_cleanings + 1
         /\ IF o.ok
            THEN /\ successful_cleanings' = successful_cleanings + 1
                 /\ UNCHANGED failed_cleanings
            ELSE /\ failed_cleanings' = failed_cleanings + 1
                 /\ UNCHANGED successful_cleanings

(***************************************************************************)
(* ThesisTranslator.translate_pdf for a local file                         *)
(***************************************************************************)

\* CHUNK_SIZE of config/settings.py and the default overlap_size of
\* TextChunker, which is what ThesisTranslator constructs its chunker with
DefaultChunkSize == 1000
DefaultOverlapSize == 100

\* the texts of the blocks an extractor returns in this model
PdfTexts == { <<"a", "b">>, <<" ">>, <<"1", " ", "c", "[", "2", "]">> }
MaxPdfBlocks == 2

\* how extractor.get_reading_order() ends: it returns blocks or raises
\* PDFProcessingError
ExtractOutcomes ==
    { [state |-> "returned", blocks |-> b] : b \in SeqsUpTo(PdfTexts, MaxPdfBlocks) }
        \cup { [state |-> "raised", blocks |-> <<>>] }

\* the metadata dict of _translate_pdf_file: title, date, source, translator,
\* with a date and a file name of this model
PipelineMetadata ==
    << << <<"t", "i", "t", "l", "e">>, <<"U7FFB", "U8BD1", "U8BBA", "U6587">> >>,
       << <<"d", "a", "t", "e">>, <<"2", "0", "2", "6", "-", "0", "1", "-", "0", "1">> >>,
       << <<"s", "o", "u", "r", "c", "e">>, <<"p", ".", "p", "d", "f">> >>,
       << <<"t", "r", "a", "n", "s", "l", "a", "t", "o", "r">>,
          <<"T", "h", "e", "s", "i", "s", "T", "r", "a", "n", "s", "l", "a", "t", "o", "r">> >> >>

\* an empty block list passed on to the later stages
EmptyExtractionIgnored(blocks) == FALSE

\* if not text_blocks
EmptyExtraction(blocks) == blocks = <<>>

\* the extraction step and the test of its result; PDFProcessingError is
\* caught by the except clause, which returns False
Extract(res) ==
    /\ ppc = "start"
    /\ extraction' = res
    /\ IF res.state = "raised" \/ EmptyExtraction(res.blocks)
       THEN /\ returned' = "False"
            /\ ppc' = "done"
       ELSE /\ ppc' = "split"
            /\ UNCHANGED returned
    /\ UNCHANGED <<total_cleanings, successful_cleanings, failed_cleanings,
                   include_metadata, include_toc, cleaned_chunks,
                   processed_chunks, assembled, final_content,
                   validation_result, output_file>>
    /\ UNCHANGED <<chunkerVars, translatorVars, notPipelineVars>>

\* text_chunks = self.text_chunker.create_chunks(text_blocks): the call; its
\* loop is LoopStep
PipelineCreateChunks ==
    /\ ppc = "split"
    /\ CreateChunksBegin(extraction.blocks)

\* clean_text_chunks(text_chunks) up to the head of its loop
CleanChunksBegin ==
    /\ ppc = "split"
    /\ pc = "done"
    /\ cleaned_chunks' = <<>>
    /\ ppc' = IF chunks = <<>> THEN "process" ELSE "clean"
    /\ UNCHANGED <<total_cleanings, successful_cleanings, failed_cleanings,
                   include_metadata, include_toc, extraction,
                   processed_chunks, assembled, final_content,
                   validation_result, output_file, returned>>
    /\ UNCHANGED <<chunkerVars, translatorVars, notPipelineVars>>

\* one iteration of the loop of clean_text_chunks: clean_with_retry returns
\* what its first call of clean_text_chunk returns, since that call catches
\* every exception itself
CleanChunkStep(o) ==
    /\ ppc = "clean"
    /\ CleanTextChunkCounts(chunks[Len(cleaned_chunks) + 1], o)
    /\ cleaned_chunks' =
          Append(cleaned_chunks,
                 CleanTextChunkResult(chunks[Len(cleaned_chunks) + 1], o))
    /\ ppc' = IF Len(cleaned_chunks) + 1 = Len(chunks) THEN "process" ELSE "clean"
    /\ UNCHANGED <<include_metadata, include_toc, extraction,
                   processed_chunks, assembled, final_content,
                   validation_result, output_file, returned>>
    /\ UNCHANGED <<chunkerVars, translatorVars, notPipelineVars>>

\* the loop that applies process_cleaned_output to every cleaned chunk
ProcessCleanedChunks ==
    /\ ppc = "process"
    /\ processed_chunks' =
          [i \in 1..Len(cleaned_chunks) |-> process_cleaned_output(cleaned_chunks[i])]
    /\ ppc' = "translate"
    /\ UNCHANGED <<total_cleanings, successful_cleanings, failed_cleanings,
                   include_metadata, include_toc, extraction, cleaned_chunks,
                   assembled, final_content, validation_result, output_file,
                   returned>>
    /\ UNCHANGED <<chunkerVars, translatorVars, notPipelineVars>>

\* the cleaned chunks translated as the LLM returned them
TranslatorInputUnprocessed(cleaned, processed) == cleaned

\* the argument of translate_chunks in _translate_pdf_file
TranslatorInput(cleaned, processed) == processed

\* translated_chunks = self.translator.translate_chunks(processed_chunks): the
\* call; its loop is TranslateChunkStep
PipelineTranslateChunks ==
    /\ ppc = "translate"
    /\ TranslateChunksBegin(TranslatorInput(cleaned_chunks, processed_chunks))

\* generate_markdown, add_metadata, create_table_of_contents and
\* validate_markdown, in this order, on the list translate_chunks returned
AssembleDocument ==
    /\ ppc = "translate"
    /\ tpc = "chunks_done"
    /\ LET generated == generate_markdown(translations)
           with_meta == IF include_metadata
                        THEN add_metadata(generated, PipelineMetadata)
                        ELSE generated
           with_toc == IF include_toc
                       THEN create_table_of_contents(with_meta)
                       ELSE with_meta
       IN  /\ assembled' = generated
           /\ final_content' = with_toc
           /\ validation_result' = validate_markdown(with_toc)
    /\ ppc' = "write"
    /\ UNCHANGED <<total_cleanings, successful_cleanings, failed_cleanings,
                   include_metadata, include_toc, extraction, cleaned_chunks,
                   processed_chunks, output_file, returned>>
    /\ UNCHANGED <<chunkerVars, translatorVars, notPipelineVars>>

\* open(output_path, 'w') and f.write(markdown_content), then return True; an
\* OSError of open is caught by the last except clause, which returns False
WriteOutput(ok) ==
    /\ ppc = "write"
    /\ IF ok
       THEN /\ output_file' = [exists |-> TRUE, content |-> final_content]
            /\ returned' = "True"
       ELSE /\ returned' = "False"
            /\ UNCHANGED output_file
    /\ ppc' = "done"
    /\ UNCHANGED <<total_cleanings, successful_cleanings, failed_cleanings,
                   include_metadata, include_toc, extraction, cleaned_chunks,
                   processed_chunks, assembled, final_content,
                   validation_result>>
    /\ UNCHANGED <<chunkerVars, translatorVars, notPipelineVars>>

\* a ThesisTranslator just constructed, with its chunker, cleaner, translator
\* and generator, and no file at output_path
InitPipeline ==
    /\ constructed = TRUE
    /\ chunk_size = DefaultChunkSize
    /\ overlap_size = DefaultOverlapSize
    /\ text_blocks = <<>>
    /\ merged_text = <<>>
    /\ start = 0
    /\ chunks = <<>>
    /\ pc = "ready"
    /\ TranslatorFresh
    /\ tpc = "ready"
    /\ PipelineFresh
    /\ include_metadata \in BOOLEAN
    /\ include_toc \in BOOLEAN
    /\ ppc = "start"
    /\ CleanerIdle
    /\ MarkdownIdle
    /\ DocumentIdle
    /\ WebIdle

NextPipeline ==
    \/ \E res \in ExtractOutcomes : Extract(res)
    \/ PipelineCreateChunks
    \/ LoopStep
    \/ CleanChunksBegin
    \/ \E o \in CleanOutcomes : CleanChunkStep(o)
    \/ ProcessCleanedChunks
    \/ PipelineTranslateChunks
    \/ \E o \in ApiOutcomes : TranslateChunkStep(o)
    \/ AssembleDocument
    \/ \E ok \in BOOLEAN : WriteOutput(ok)

SpecPipeline == InitPipeline /\ [][NextPipeline]_vars

(***************************************************************************)
(* The TextChunker of a ThesisTranslator(chunk_size=k)                     *)
(***************************************************************************)

\* the values of chunk_size, all of them positive, that the pipeline is
\* constructed with in this model: 1..MaxPipelineChunkSize and the default
MaxPipelineChunkSize == 3
PipelineChunkSizes == 1..MaxPipelineChunkSize \cup {DefaultChunkSize}

\* self.text_chunker = TextChunker(chunk_size=self.chunk_size): overlap_size
\* takes its default, then create_chunks and its loop
NextPipelineChunker ==
    \/ \E k \in PipelineChunkSizes : Construct(k, DefaultOverlapSize)
    \/ \E blocks \in BlockLists : CreateChunksBegin(blocks)
    \/ LoopStep

SpecPipelineChunker == InitChunker /\ [][NextPipelineChunker]_vars

\* the loop of create_chunks runs on: nothing in the code suspends it
FairSpecPipelineChunker == SpecPipelineChunker /\ WF_vars(LoopStep)

(***************************************************************************)
(* web_app_fastapi: a background translation task and a delete request     *)
(*                                                                         *)
(* run_translation_task is a plain function, which the server runs in a    *)
(* worker thread; delete_task runs on the event loop. Their statements     *)
(* interleave, one statement on the shared dicts at a time.                *)
(***************************************************************************)

\* the id of the task
TaskId == "t1"

\* the record translate_file stores for a new task
QueuedTask ==
    [status |-> "queued", stage |-> "waiting", progress |-> 0,
     output_file |-> "none", error |-> "none"]

\* the most entries a TaskLogger keeps
LogLimit == 100

\* self.logs after emit has appended an entry and dropped the oldest one
\* beyond the limit
LogsAfter(entry) ==
    LET logs == Append(handler_logs, entry)
    IN  IF Len(logs) > LogLimit THEN Tail(logs) ELSE logs

\* d[k] = v on a dict
DictSet(d, k, v) == [i \in DOMAIN d \cup {k} |-> IF i = k THEN v ELSE d[i]]

\* del d[k]
DictDel(d, k) == [i \in DOMAIN d \ {k} |-> d[i]]

\* a log record written while the task runs: TaskLogger.emit when the
\* handler is attached to the root logger, nothing here otherwise
Log(entry) ==
    IF handler_attached
    THEN /\ handler_logs' = LogsAfter(entry)
         /\ task_logs' = DictSet(task_logs, TaskId, LogsAfter(entry))
    ELSE UNCHANGED <<handler_logs, task_logs>>

\* tasks[task_id][field] = value inside the try block, at line p with line q
\* next: a KeyError when the task is gone, which the except clause catches
TaskWrite(p, field, value, q) ==
    /\ wpc = p
    /\ IF TaskId \in DOMAIN tasks
       THEN /\ tasks' = [tasks EXCEPT ![TaskId][field] = value]
            /\ wpc' = q
       ELSE /\ wpc' = "L212"
            /\ UNCHANGED tasks
    /\ UNCHANGED <<task_logs, handler_logs, handler_attached,
                   pending_exception, task_outcome, response, rpc>>
    /\ UNCHANGED notWebVars

\* logger.info(...) or logger.error(...) at line p with line q next
LogStep(p, entry, q) ==
    /\ wpc = p
    /\ Log(entry)
    /\ wpc' = q
    /\ UNCHANGED <<tasks, handler_attached, pending_exception, task_outcome,
                   response, rpc>>
    /\ UNCHANGED notWebVars

\* a call of the storage layer or of the translator at line p that touches
\* no shared dict: it goes on at line q, or raises into the except clause
CallStep(p, raises, q) ==
    /\ wpc = p
    /\ wpc' = IF raises THEN "L212" ELSE q
    /\ UNCHANGED <<tasks, task_logs, handler_logs, handler_attached,
                   pending_exception, task_outcome, response, rpc>>
    /\ UNCHANGED notWebVars

\* task_logger = TaskLogger(task_id) and the addHandler calls
AttachHandler ==
    /\ wpc = "L131"
    /\ handler_logs' = <<>>
    /\ handler_attached' = TRUE
    /\ wpc' = "L144"
    /\ UNCHANGED <<tasks, task_logs, pending_exception, task_outcome,
                   response, rpc>>
    /\ UNCHANGED notWebVars

\* create_minio_file_interface_from_env() and file_exists(translation_name)
CheckTranslated(res) ==
    /\ wpc = "L147"
    /\ wpc' = CASE res = "exists" -> "L152"
                [] res = "missing" -> "L158"
                [] OTHER -> "L212"
    /\ UNCHANGED <<tasks, task_logs, handler_logs, handler_attached,
                   pending_exception, task_outcome, response, rpc>>
    /\ UNCHANGED notWebVars

\* translator = ThesisTranslator(**config): it logs that it is ready, or
\* raises ValueError
CreateTranslator(ok) ==
    /\ wpc = "L158"
    /\ IF ok
       THEN /\ Log("initialized")
            /\ wpc' = "L162"
       ELSE /\ wpc' = "L212"
            /\ UNCHANGED <<task_logs, handler_logs>>
    /\ UNCHANGED <<tasks, handler_attached, pending_exception, task_outcome,
                   response, rpc>>
    /\ UNCHANGED notWebVars

\* success = translator.translate_pdf(temp_path, output_temp_path), which
\* logs its start and returns True or False
TranslatePdf(success) ==
    /\ wpc = "L184"
    /\ Log("translate_pdf")
    /\ wpc' = IF success THEN "L188" ELSE "L200"
    /\ UNCHANGED <<tasks, handler_attached, pending_exception, task_outcome,
                   response, rpc>>
    /\ UNCHANGED notWebVars

\* tasks[task_id]['status'] = 'failed' of the except clause: a KeyError here
\* is caught by nothing
ExceptStatus ==
    /\ wpc = "L212"
    /\ IF TaskId \in DOMAIN tasks
       THEN /\ tasks' = [tasks EXCEPT ![TaskId].status = "failed"]
            /\ wpc' = "L213"
            /\ UNCHANGED pending_exception
       ELSE /\ pending_exception' = TRUE
            /\ wpc' = "L218"
            /\ UNCHANGED tasks
    /\ UNCHANGED <<task_logs, handler_logs, handler_attached, task_outcome,
                   response, rpc>>
    /\ UNCHANGED notWebVars

\* tasks[task_id]['error'] = str(e) of the except clause
ExceptError ==
    /\ wpc = "L213"
    /\ IF TaskId \in DOMAIN tasks
       THEN /\ tasks' = [tasks EXCEPT ![TaskId].error = "exception"]
            /\ wpc' = "L215"
            /\ UNCHANGED pending_exception
       ELSE /\ pending_exception' = TRUE
            /\ wpc' = "L218"
            /\ UNCHANGED tasks
    /\ UNCHANGED <<task_logs, handler_logs, handler_attached, task_outcome,
                   response, rpc>>
    /\ UNCHANGED notWebVars

\* the finally clause removes the handler; then the function returns, or the
\* exception that left the except clause goes on to the caller
Finally ==
    /\ wpc = "L218"
    /\ handler_attached' = FALSE
    /\ task_outcome' = IF pending_exception THEN "raised" ELSE "returned"
    /\ wpc' = "end"
    /\ UNCHANGED <<tasks, task_logs, handler_logs, pending_exception,
                   response, rpc>>
    /\ UNCHANGED notWebVars

\* delete_task: if task_id not in tasks, raise HTTPException(404)
DeleteCheck ==
    /\ rpc = "ready"
    /\ IF TaskId \in DOMAIN tasks
       THEN /\ rpc' = "L567"
            /\ UNCHANGED response
       ELSE /\ response' = "404"
            /\ rpc' = "done"
    /\ UNCHANGED <<tasks, task_logs, handler_logs, handler_attached,
                   pending_exception, task_outcome, wpc>>
    /\ UNCHANGED notWebVars

\* del tasks[task_id]
DeleteTask ==
    /\ rpc = "L567"
    /\ tasks' = DictDel(tasks, TaskId)
    /\ rpc' = "L570"
    /\ UNCHANGED <<task_logs, handler_logs, handler_attached,
                   pending_exception, task_outcome, wpc, response>>
    /\ UNCHANGED notWebVars

\* if task_id in task_logs: del task_logs[task_id], and the answer
DeleteLogs ==
    /\ rpc = "L570"
    /\ task_logs' = DictDel(task_logs, TaskId)
    /\ response' = "deleted"
    /\ rpc' = "done"
    /\ UNCHANGED <<tasks, handler_logs, handler_attached, pending_exception,
                   task_outcome, wpc>>
    /\ UNCHANGED notWebVars

\* translate_file has stored the task and scheduled run_translation_task; no
\* delete request yet; the other components are not in use
InitWeb ==
    /\ tasks = [i \in {TaskId} |-> QueuedTask]
    /\ task_logs = EmptyDict
    /\ handler_logs = <<>>
    /\ handler_attached = FALSE
    /\ pending_exception = FALSE
    /\ task_outcome = "running"
    /\ wpc = "L126"
    /\ response = "none"
    /\ rpc = "ready"
    /\ ChunkerIdle
    /\ CleanerIdle
    /\ MarkdownIdle
    /\ DocumentIdle
    /\ TranslatorIdle
    /\ PipelineIdle

NextWeb ==
    \/ TaskWrite("L126", "status", "processing", "L127")
    \/ TaskWrite("L127", "stage", "initializing", "L128")
    \/ TaskWrite("L128", "progress", 0, "L131")
    \/ AttachHandler
    \/ LogStep("L144", "start", "L147")
    \/ \E res \in {"exists", "missing", "raised"} : CheckTranslated(res)
    \/ TaskWrite("L152", "status", "completed", "L153")
    \/ TaskWrite("L153", "progress", 100, "L154")
    \/ TaskWrite("L154", "output_file", "translation", "L155")
    \/ LogStep("L155", "skipped", "L218")
    \/ \E ok \in BOOLEAN : CreateTranslator(ok)
    \/ TaskWrite("L162", "stage", "downloading", "L163")
    \/ TaskWrite("L163", "progress", 20, "L164")
    \/ LogStep("L164", "downloading", "L171")
    \/ \E raises \in BOOLEAN : CallStep("L171", raises, "L176")
    \/ TaskWrite("L176", "stage", "translating", "L177")
    \/ TaskWrite("L177", "progress", 50, "L178")
    \/ LogStep("L178", "translating", "L184")
    \/ \E success \in BOOLEAN : TranslatePdf(success)
    \/ TaskWrite("L188", "stage", "uploading", "L189")
    \/ TaskWrite("L189", "progress", 90, "L190")
    \/ LogStep("L190", "uploading", "L193")
    \/ \E raises \in BOOLEAN : CallStep("L193", raises, "L195")
    \/ TaskWrite("L195", "status", "completed", "L196")
    \/ TaskWrite("L196", "progress", 100, "L197")
    \/ TaskWrite("L197", "output_file", "translation", "L198")
    \/ LogStep("L198", "completed", "L218")
    \/ TaskWrite("L200", "status", "failed", "L201")
    \/ TaskWrite("L201", "error", "failed", "L202")
    \/ LogStep("L202", "failed", "L218")
    \/ ExceptStatus
    \/ ExceptError
    \/ LogStep("L215", "exception", "L218")
    \/ Finally
    \/ DeleteCheck
    \/ DeleteTask
    \/ DeleteLogs

SpecWeb == InitWeb /\ [][NextWeb]_vars

(***************************************************************************)
(* Properties of TextChunker                                               *)
(***************************************************************************)

\* the parameters the contract of create_chunks admits
ValidParams ==
    constructed /\ chunk_size > 0 /\ 0 <= overlap_size /\ overlap_size < chunk_size

\* the first chunk, then every later chunk without its first ov characters
RECURSIVE DropOverlaps(_, _)
DropOverlaps(cs, ov) ==
    IF cs = <<>> THEN <<>>
    ELSE PySliceFrom(Head(cs), ov) \o DropOverlaps(Tail(cs), ov)
Reconstruct(cs, ov) ==
    IF cs = <<>> THEN <<>> ELSE Head(cs) \o DropOverlaps(Tail(cs), ov)

\* C1: with chunk_size > 0 and 0 <= overlap_size < chunk_size, every chunk
\* create_chunks has emitted is at least 1 and at most chunk_size long.
C1_ChunkLengthBounded ==
    ValidParams =>
        \A i \in 1..Len(chunks) : Len(chunks[i]) >= 1 /\ Len(chunks[i]) <= chunk_size

\* create_chunks returned several chunks, a full one and a shorter one among them
C1_Witness ==
    /\ pc = "done" /\ ValidParams /\ Len(chunks) >= 3
    /\ \E i \in 1..Len(chunks) : Len(chunks[i]) = chunk_size
    /\ \E i \in 1..Len(chunks) : Len(chunks[i]) < chunk_size

\* C2: the first returned chunk followed by every later chunk without its
\* first overlap_size characters is exactly the merged text.
C2_SplitReconstruction ==
    (pc = "done" /\ ValidParams) => Reconstruct(chunks, overlap_size) = merged_text

\* several overlapping chunks were returned for a text of distinct characters
C2_Witness ==
    /\ pc = "done" /\ ValidParams /\ overlap_size >= 1 /\ Len(chunks) >= 4
    /\ merged_text = ScenarioText

\* C3: with valid parameters the loop of create_chunks terminates, and the
\* returned sequence is empty exactly when the merged text is empty.
C3_SplitTerminates ==
    /\ [](pc = "done" /\ ValidParams => (chunks = <<>> <=> merged_text = <<>>))
    /\ ((pc = "loop" /\ ValidParams) ~> (pc = "done"))

\* the loop ended after several iterations
C3_Witness ==
    pc = "done" /\ ValidParams /\ Len(chunks) >= 5 /\ start > 0

\* C4: no TextChunker exists with chunk_size <= 0 or overlap_size >= chunk_size.
C4_ConstructionValidates ==
    constructed => (chunk_size > 0 /\ overlap_size < chunk_size)

\* the chunks before the last one
Front(cs) == SubSeq(cs, 1, Len(cs) - 1)

\* C5: the last chunk holds a character of the merged text that no earlier
\* chunk holds, and "abcdefghij" with chunk_size 4 and overlap_size 1 gives
\* exactly "abcd", "defg", "ghij".
C5_TailRule ==
    (pc = "done" /\ ValidParams /\ chunks # <<>>) =>
        /\ Len(Reconstruct(Front(chunks), overlap_size)) < Len(merged_text)
        /\ (merged_text = ScenarioText /\ chunk_size = 4 /\ overlap_size = 1) =>
               chunks = << <<"a", "b", "c", "d">>, <<"d", "e", "f", "g">>,
                           <<"g", "h", "i", "j">> >>

\* the blocks that are not empty after trimming
KeptBlocks(blocks) ==
    { i \in 1..Len(blocks) : \E k \in 1..Len(blocks[i]) : ~IsSpace(blocks[i][k]) }

\* where block i starts in the merged text: after the kept blocks before it,
\* each followed by one separator
RECURSIVE MergedOffset(_, _)
MergedOffset(blocks, i) ==
    IF i <= 1 THEN 0
    ELSE MergedOffset(blocks, i - 1)
            + (IF (i - 1) \in KeptBlocks(blocks) THEN Len(blocks[i - 1]) + 1 ELSE 0)

\* C6: merge_blocks_to_string returns the texts of the n non-blank blocks in
\* input order, each pair separated by exactly one space: its length is the sum
\* of their lengths plus n-1, and it is empty when no block is kept.
C6_MergeJoinsWithSpaces ==
    pc \in {"merged", "loop"} =>
        LET kept == KeptBlocks(text_blocks)
            total == MergedOffset(text_blocks, Len(text_blocks) + 1)
        IN  /\ Len(merged_text) = IF kept = {} THEN 0 ELSE total - 1
            /\ \A i \in kept :
                  LET off == MergedOffset(text_blocks, i)
                  IN  /\ SubSeq(merged_text, off + 1, off + Len(text_blocks[i]))
                            = text_blocks[i]
                      /\ off > 0 => merged_text[off] = " "

\* three blocks, a blank one between two kept ones
C6_Witness ==
    /\ pc = "merged" /\ Len(text_blocks) = 3
    /\ KeptBlocks(text_blocks) = {1, 3}
    /\ text_blocks[2] = <<" ">>

(***************************************************************************)
(* Properties of the marker transforms                                     *)
(***************************************************************************)

\* C7: process_cleaned_output applied to its own result changes nothing.
C7_MarkerIdempotence ==
    cpc = "again" => reprocessed = processed_text

\* <Title> ... </Title> with no other title tag in between
HasTitlePair(s) ==
    \E i \in 1..Len(s), j \in 1..Len(s) :
        /\ StartsWithAt(s, TitleOpen, i)
        /\ j >= i + Len(TitleOpen)
        /\ StartsWithAt(s, TitleClose, j)
        /\ \A k \in (i + 1)..(j - 1) :
              ~StartsWithAt(s, TitleOpen, k) /\ ~StartsWithAt(s, TitleClose, k)

\* C8: the result of process_cleaned_output holds no <End> token and no
\* <Title>...</Title> pair: every marker of the input was replaced.
C8_MarkersConsumed ==
    cpc = "cleaned" => ~Contains(processed_text, EndTag) /\ ~HasTitlePair(processed_text)

\* C9: process_title_tags turns "A <Title>X</Title> B" into "A\n## X\nB", and
\* "Some text <Title>Introduction</Title> more text" into
\* "Some text\n## Introduction\nmore text".
C9_HeadingOnOwnLine ==
    cpc = "title" =>
        \A A \in Words \cup {<<"S", "o", "m", "e", " ", "t", "e", "x", "t">>},
           X \in Words \cup {<<"I", "n", "t", "r", "o", "d", "u", "c", "t", "i", "o", "n">>},
           B \in Words \cup {<<"m", "o", "r", "e", " ", "t", "e", "x", "t">>} :
            cleaned_text = TitleSentence(A, X, B) =>
                title_out = A \o Heading2 \o X \o Newline \o B

(***************************************************************************)
(* Properties of MarkdownGenerator                                         *)
(***************************************************************************)

\* the chunks joined with "\n\n", in input order
JoinedChunks == Join(<<"\n", "\n">>, translated_chunks)

\* three newlines or more with nothing but whitespace between them
HasNewlineRun(s) ==
    \E i \in 1..Len(s), j \in 1..Len(s), k \in 1..Len(s) :
        /\ i < j /\ j < k
        /\ s[i] = "\n" /\ s[j] = "\n" /\ s[k] = "\n"
        /\ \A m \in i..k : IsSpace(s[m])

\* C10 as stated: generate_markdown returns the chunks joined with "\n\n"
\* unchanged when the joined text starts with '#', and "" for no chunks.
C10_JoinedUnchanged ==
    mpc = "done" =>
        /\ translated_chunks = <<>> => markdown_content = <<>>
        /\ StartsWithHash(JoinedChunks) => markdown_content = JoinedChunks

\* C10, amended: generate_markdown joins the chunks with "\n\n" and replaces
\* every run of three or more newlines by "\n\n"; when the joined text starts
\* with '#' nothing else is added or rewritten, so a joined text without such a
\* run is returned as it is ("# Title", "Body text." give
\* "# Title\n\nBody text."); no chunks give "".
C10_JoinedThenCollapsed ==
    mpc = "done" =>
        /\ translated_chunks = <<>> => markdown_content = <<>>
        /\ StartsWithHash(JoinedChunks) =>
              /\ markdown_content = CollapseTriple(JoinedChunks)
              /\ ~HasNewlineRun(JoinedChunks) => markdown_content = JoinedChunks
        /\ translated_chunks = <<ChunkTitle, ChunkBody>> =>
              markdown_content = ChunkTitle \o <<"\n", "\n">> \o ChunkBody

\* the documented scenario was assembled
C10_Witness ==
    /\ mpc = "done"
    /\ translated_chunks = <<ChunkTitle, ChunkBody>>
    /\ markdown_content = ChunkTitle \o <<"\n", "\n">> \o ChunkBody

\* the first line of s: what precedes its first newline
FirstLineOf(s) ==
    LET nls == { i \in 1..Len(s) : s[i] = "\n" }
    IN  IF nls = {} THEN s ELSE SubSeq(s, 1, SetMin(nls) - 1)

\* what follows the first newline of s
AfterFirstLine(s) ==
    LET nls == { i \in 1..Len(s) : s[i] = "\n" }
    IN  IF nls = {} THEN <<>> ELSE SubSeq(s, SetMin(nls) + 1, Len(s))

\* the result begins with a title line that the joined text did not have
TitleAdded == markdown_content # CollapseTriple(JoinedChunks)

\* C11 as stated: generate_markdown adds a title exactly when the joined text
\* does not start with '#' and its first line is non-empty (read here as: not
\* blank); when the joined text starts with '#' or its first line is empty, no
\* title is added.
C11_TitleIffFirstLineOfJoined ==
    (mpc = "done" /\ translated_chunks # <<>>) =>
        (TitleAdded <=> (/\ ~StartsWithHash(JoinedChunks)
                         /\ Strip(FirstLineOf(JoinedChunks)) # <<>>))

\* C11, amended: generate_markdown decides on the joined text with its runs of
\* newlines collapsed and its surrounding whitespace removed. When that
\* trimmed text is non-empty and does not start with '#', the result is "# "
\* and the trimmed first line of the trimmed text, an empty line, and the rest
\* of the trimmed text; when it is empty or starts with '#', the collapsed
\* joined text is returned with no title added.
C11_TitleIffTrimmedTextHasNoHeading ==
    (mpc = "done" /\ translated_chunks # <<>>) =>
        LET trimmed == Strip(CollapseTriple(JoinedChunks))
        IN  IF trimmed # <<>> /\ ~StartsWithHash(trimmed)
            THEN markdown_content =
                     <<"#", " ">> \o Strip(FirstLineOf(trimmed))
                         \o <<"\n", "\n">> \o AfterFirstLine(trimmed)
            ELSE ~TitleAdded

\* a title was made of a text whose first line is empty: the line after it
\* became the title
C11_Witness ==
    /\ mpc = "done"
    /\ translated_chunks = << <<"\n", "z">>, ChunkBody >>
    /\ FirstLineOf(JoinedChunks) = <<>>
    /\ markdown_content = <<"#", " ", "z", "\n", "\n", "\n">> \o ChunkBody

(***************************************************************************)
(* Properties of add_metadata, create_table_of_contents, validate_markdown *)
(***************************************************************************)

\* the front matter of the metadata: a fence, a line per item in the order of
\* the mapping, a fence
FrontMatterLines ==
    <<FrontMatterFence>> \o [i \in 1..Len(metadata) |-> MetadataLine(metadata[i])]
        \o <<FrontMatterFence>>

\* C12: add_metadata with a non-empty mapping returns the "---" line, one
\* "key: value" line per entry in mapping order, the "---" line, then one blank
\* line, then the content unchanged; with no metadata the content is returned
\* unchanged.
C12_FrontMatterThenBlankLine ==
    (dpc = "meta" /\ document # <<>>) =>
        IF metadata = <<>>
        THEN meta_out = document
        ELSE meta_out = Join(Newline, FrontMatterLines \o << <<>>, document >>)

\* the lines of s that hold a heading of their own: '#'s, whitespace, a title
HeadingLines(s) ==
    SelectSeq(SplitLines(s), LAMBDA l : FindTitles(l) # <<>>)

\* C13: create_table_of_contents applied to content that has no heading line
\* returns the content unchanged.
C13_NoHeadingContentUnchanged ==
    (dpc = "toc" /\ HeadingLines(document) = <<>>) => toc_out = document

\* the table of contents as C14 words it: the heading, a blank line, an entry
\* per heading line in document order, a blank line
StatedToc(s) ==
    LET hs == HeadingLines(s)
        entry(l) == LET t == FindTitles(l)[1]
                    IN  Indent(t[1] - 1) \o <<"-", " ", "[">> \o t[2]
                            \o <<"]", "(", "#">> \o Anchor(t[2]) \o <<")">>
    IN  Join(Newline, <<TocHeading, <<>>>> \o [i \in 1..Len(hs) |-> entry(hs[i])]
                          \o << <<>>, <<>> >>)

\* C14: for content with headings the result holds the "## " table-of-contents
\* block with exactly one "- [title](#anchor)" entry per heading line, in
\* document order, indented by (level-1) two-space units, the anchor being
\* the title without the characters that are not word characters, CJK
\* characters, hyphens or spaces, lowercased, spaces replaced by hyphens (and,
\* as the code does, trimmed).
C14_OneEntryPerHeadingLine ==
    (dpc = "toc" /\ HeadingLines(document) # <<>>) =>
        Contains(toc_out, StatedToc(document))

\* C15: is_valid is true exactly when the errors list is empty, whatever the
\* warnings (content shorter than 10 characters after trimming, no heading
\* line found); empty content gives is_valid false with exactly one error and
\* no warnings.
C15_ValidIffNoErrors ==
    dpc = "valid" =>
        /\ validation.is_valid <=> validation.errors = <<>>
        /\ document = <<>> =>
              /\ ~validation.is_valid
              /\ Len(validation.errors) = 1
              /\ validation.warnings = <<>>
        /\ document # <<>> =>
              /\ (\E i \in 1..Len(validation.warnings) :
                      validation.warnings[i] = WarnTooShort)
                     <=> Len(Strip(document)) < 10
              /\ (\E i \in 1..Len(validation.warnings) :
                      validation.warnings[i] = WarnNoTitle)
                     <=> ~HasTitleMatch(document)

\* a document with both warnings was found valid
C15_Witness ==
    /\ dpc = "valid"
    /\ Len(validation.warnings) = 2
    /\ validation.errors = <<>>
    /\ validation.is_valid

\* the number of "$$" in s: each maximal run of '$' holds one for every two
\* characters, so a "$$" begins where an even number of '$' precede it in its
\* run
FormulaMarks(s) ==
    Cardinality({ i \in 1..(Len(s) - 1) :
        /\ s[i] = "$" /\ s[i + 1] = "$"
        /\ \E r \in 1..i :
              /\ \A j \in r..i : s[j] = "$"
              /\ r = 1 \/ s[r - 1] # "$"
              /\ (i - r) % 2 = 0 })

\* C16: for non-empty content the unpaired-formula error is reported exactly
\* when the number of "$$" in the content is odd, and it is the only error:
\* an even count is valid ("# T\n$$a$$\nBody"), an odd count is invalid with
\* one error ("# T\n$$a\nBody").
C16_ErrorIffOddFormulaMarks ==
    (dpc = "valid" /\ document # <<>>) =>
        /\ validation.errors =
              IF FormulaMarks(document) % 2 = 1
              THEN <<ErrFormulaUnpaired>> ELSE <<>>
        /\ validation.is_valid <=> FormulaMarks(document) % 2 = 0
        /\ document = DocFormulaPaired =>
              validation.is_valid /\ validation.errors = <<>>
        /\ document = DocFormulaUnpaired =>
              ~validation.is_valid /\ Len(validation.errors) = 1

\* the document with one "$$" was found invalid
C16_Witness ==
    /\ dpc = "valid"
    /\ document = DocFormulaUnpaired
    /\ validation.errors = <<ErrFormulaUnpaired>>
    /\ ~validation.is_valid

(***************************************************************************)
(* Properties of AITranslator                                              *)
(***************************************************************************)

\* the calls that translate_with_retry made succeeded only in the last place
OnlyLastCallSucceeded ==
    \A i \in 1..Len(api_calls) : api_calls[i].ok => i = Len(api_calls)

\* C17: translate_with_retry makes at most max_retries attempts, returns the
\* result of the first attempt that succeeds without attempting again, raises
\* TranslationError when every attempt fails, and never returns without a
\* translation.
C17_RetryReturnsTranslationOrRaises ==
    /\ tpc \in {"retry", "returned", "raised"} =>
          /\ Len(api_calls) <= max_retries
          /\ OnlyLastCallSucceeded
    /\ tpc = "returned" =>
          /\ retry_result.kind = "str"
          /\ ~IsBlank(retry_text) =>
                /\ api_calls # <<>>
                /\ api_calls[Len(api_calls)].ok
                /\ retry_result.value = Strip(api_calls[Len(api_calls)].reply)
    /\ tpc = "raised" =>
          /\ retry_result.kind = "TranslationError"
          /\ Len(api_calls) = max_retries
          /\ \A i \in 1..Len(api_calls) : ~api_calls[i].ok

\* the call of the model for the chunk at position i: blank chunks make none
CallOfChunk(i) ==
    Cardinality({ j \in 1..i : ~IsBlank(text_chunks[j]) })

\* C19: translate_chunks returns a list as long as its input whose element i
\* comes from input i: "" for a blank chunk, the trimmed reply when its
\* translation succeeded, the error marker with the message of the failure
\* when it failed; a failure leaves the other positions translated.
C19_OneOutputPerChunk ==
    /\ tpc = "chunks" => Len(translations) = chunk_index
    /\ tpc = "chunks_done" =>
          /\ Len(translations) = Len(text_chunks)
          /\ \A i \in 1..Len(text_chunks) :
                IF IsBlank(text_chunks[i]) THEN translations[i] = <<>>
                ELSE LET c == api_calls[CallOfChunk(i)]
                     IN  /\ c.text = text_chunks[i]
                         /\ c.ok => translations[i] = Strip(c.reply)
                         /\ ~c.ok =>
                               translations[i] =
                                   <<"[", "U7FFB", "U8BD1", "U9519", "U8BEF", ":", " ",
                                     "U7FFB", "U8BD1", "U5931", "U8D25", ":", " ">>
                                       \o c.reply \o <<"]">>

\* three chunks of which the second failed: the first and the third are
\* translated and the second holds the marker
C19_Witness ==
    /\ tpc = "chunks_done"
    /\ Len(text_chunks) = 3
    /\ Len(api_calls) = 3
    /\ api_calls[1].ok /\ ~api_calls[2].ok /\ api_calls[3].ok
    /\ translations[1] = Strip(api_calls[1].reply)
    /\ translations[2] = ErrorMarker(TranslationFailed(api_calls[2].reply))
    /\ translations[3] = Strip(api_calls[3].reply)

(***************************************************************************)
(* Properties of ThesisTranslator.translate_pdf                            *)
(***************************************************************************)

\* C18: when the extractor returns an empty block list, translate_pdf returns
\* False (it does not raise), create_chunks is not called, no cleaning and no
\* translation call is made, and no output file is written.
C18_EmptyExtractionReturnsFalse ==
    (extraction.state = "returned" /\ extraction.blocks = <<>>) =>
        /\ ppc = "done"
        /\ returned = "False"
        /\ pc = "ready"
        /\ total_cleanings = 0
        /\ cleaned_chunks = <<>>
        /\ tpc = "ready"
        /\ total_translations = 0
        /\ api_calls = <<>>
        /\ output_file = NoFile

\* the extractor returned no block and translate_pdf returned False
C18_Witness ==
    /\ ppc = "done"
    /\ extraction = [state |-> "returned", blocks |-> <<>>]
    /\ returned = "False"
    /\ output_file = NoFile

\* _translate_pdf_file got as far as assembling the document
DocumentAssembled ==
    \/ ppc = "write"
    \/ ppc = "done" /\ extraction.state = "returned" /\ extraction.blocks # <<>>

\* s holds a <Title>, </Title> or <End> marker
HasRawMarker(s) ==
    Contains(s, TitleOpen) \/ Contains(s, TitleClose) \/ Contains(s, EndTag)

\* C20 as stated: translation runs on the cleaned chunks, the marker
\* processor runs on the translations as the last per-chunk transform, its
\* results go into generate_markdown, and no raw <Title>/<End> marker of an LLM
\* stage reaches the assembled document.
C20_MarkersProcessedLast ==
    /\ tpc \in {"chunks", "chunks_done"} => text_chunks = cleaned_chunks
    /\ DocumentAssembled =>
          /\ assembled =
                generate_markdown([i \in 1..Len(translations) |->
                                      process_cleaned_output(translations[i])])
          /\ ~HasRawMarker(final_content)

\* C20, amended: the stages run in the order merge and split, cleaning of
\* every chunk, marker processing of every cleaned chunk, translation of the
\* processed chunks, generate_markdown on the translations as translate_chunks
\* returned them. Marker processing comes before translation, and nothing
\* processes the markers of a translation reply.
C20_MarkersProcessedBeforeTranslation ==
    /\ pc # "ready" => text_blocks = extraction.blocks
    /\ ppc \in {"clean", "process", "translate", "write"} \/ DocumentAssembled =>
          /\ pc = "done"
          /\ Len(cleaned_chunks) <= Len(chunks)
    /\ ppc \in {"translate", "write"} \/ DocumentAssembled =>
          /\ Len(cleaned_chunks) = Len(chunks)
          /\ processed_chunks =
                [i \in 1..Len(cleaned_chunks) |->
                    process_cleaned_output(cleaned_chunks[i])]
    /\ tpc # "ready" =>
          /\ ppc \in {"translate", "write", "done"}
          /\ text_chunks = processed_chunks
    /\ DocumentAssembled =>
          /\ tpc = "chunks_done"
          /\ Len(translations) = Len(chunks)
          /\ assembled = generate_markdown(translations)

\* a document was written in which the marker processor had changed a cleaned
\* chunk before translation and a marker of a translation reply is left
C20_Witness ==
    /\ ppc = "done"
    /\ returned = "True"
    /\ \E i \in 1..Len(cleaned_chunks) : processed_chunks[i] # cleaned_chunks[i]
    /\ Contains(output_file.content, EndTag)

(***************************************************************************)
(* Properties of the cleaning batch and of the counters                    *)
(***************************************************************************)

\* max_retries of clean_with_retry, the ceiling on the attempts for a chunk
CleanMaxRetries == 3

\* the chunks among the first k of cs that clean_text_chunk sends to the LLM
NonBlankCount(cs, k) == Cardinality({ i \in 1..k : ~IsBlank(cs[i]) })

\* C21: in clean_text_chunks a chunk gets the basic-clean fallback only after
\* the LLM call has failed on each of 3 attempts for it. Every attempt counts
\* in total_cleanings and ends in successful_cleanings or failed_cleanings,
\* so each chunk cleaned without a success accounts for 3 failed attempts;
\* the batch goes on to the next chunk and returns one result per chunk.
C21_FallbackAfterThreeAttempts ==
    /\ Len(cleaned_chunks) <= Len(chunks)
    /\ failed_cleanings >=
          CleanMaxRetries * (NonBlankCount(chunks, Len(cleaned_chunks))
                                 - successful_cleanings)
    /\ ppc \in {"translate", "write"} => Len(cleaned_chunks) = Len(chunks)

\* the counters of the AITranslator
TranslatorCounters ==
    <<total_translations, successful_translations, failed_translations>>

\* the text that the next call of translate_text gets, when a loop is about
\* to make one
NextTranslateText ==
    IF tpc = "retry" THEN retry_text ELSE text_chunks[chunk_index + 1]

CleanerCountersConsistent ==
    /\ total_cleanings = successful_cleanings + failed_cleanings
    /\ total_cleanings = NonBlankCount(chunks, Len(cleaned_chunks))

(***************************************************************************)
(* Properties of the overlap of consecutive chunks                         *)
(***************************************************************************)

\* where chunk i of cs starts in the merged text when every chunk after the
\* first starts at max(0, end - ov), end being where the chunk before it ends
RECURSIVE StatedStart(_, _, _)
StatedStart(cs, ov, i) ==
    IF i <= 1 THEN 0
    ELSE Max(0, StatedStart(cs, ov, i - 1) + Len(cs[i - 1]) - ov)

\* C23: with parameters of the contract (chunk_size > 0, 0 <= overlap_size <
\* chunk_size), every chunk after the first is the substring of the merged
\* text that starts at max(0, end - overlap_size), end being the exclusive
\* end of the chunk before it; so two consecutive chunks share at most
\* overlap_size characters, the head of the later being the tail of the
\* earlier.
C23_NextChunkStartsAtEndMinusOverlap ==
    ValidParams =>
        \A i \in 2..Len(chunks) :
            LET st == StatedStart(chunks, overlap_size, i)
                end == StatedStart(chunks, overlap_size, i - 1) + Len(chunks[i - 1])
            IN  /\ st + Len(chunks[i]) <= Len(merged_text)
                /\ chunks[i] = SubSeq(merged_text, st + 1, st + Len(chunks[i]))
                /\ end - st <= overlap_size

(***************************************************************************)
(* Properties of the whitespace of the generated texts                     *)
(***************************************************************************)

\* C24: the text generate_markdown returns holds no run of three or more
\* newline characters, whether the joined text already began with '#' or the
\* first line was made the title.
C24_NoThreeNewlines ==
    mpc = "done" => ~Contains(markdown_content, <<"\n", "\n", "\n">>)

\* s.strip() == s
Trimmed(s) == Strip(s) = s

\* C25: what process_title_tags, process_end_tags and process_cleaned_output
\* return has no whitespace at its start and none at its end.
C25_OutputsTrimmed ==
    /\ cpc = "title" => Trimmed(title_out)
    /\ cpc = "end" => Trimmed(end_out)
    /\ cpc = "cleaned" => Trimmed(processed_text)

\* C26: a text with no <Title>...</Title> pair and no <End>, with no
\* whitespace at its ends and no three newlines that only whitespace
\* separates, comes back unchanged from process_title_tags and from
\* process_end_tags.
C26_NoMarkerTextUnchanged ==
    (/\ ~HasTitlePair(cleaned_text)
     /\ ~Contains(cleaned_text, EndTag)
     /\ Trimmed(cleaned_text)
     /\ ~HasNewlineRun(cleaned_text)) =>
        /\ cpc = "title" => title_out = cleaned_text
        /\ cpc = "end" => end_out = cleaned_text

(***************************************************************************)
(* Properties of the place of the table of contents                        *)
(***************************************************************************)

\* the number of the line of s that holds position p
LineOf(s, p) == 1 + Cardinality({ j \in 1..(p - 1) : s[j] = "\n" })

\* the positions where the heading scan finds a heading
TitleMatches(s) ==
    { j \in 1..Len(s) :
        /\ AtLineStart(s, j)
        /\ HashRun(s, j) >= 1
        /\ TitleStarts(s, j, HashRun(s, j)) # {} }

\* the lines of the first heading the scan reports: the line of its '#'s
\* and the line of its title
FirstHeadingLines(s) ==
    LET m == SetMin(TitleMatches(s))
    IN  { LineOf(s, m), LineOf(s, SetMax(TitleStarts(s, m, HashRun(s, m)))) }

\* the lines of s with the block toc put before line k
WithBlockBefore(s, toc, k) ==
    LET lines == SplitLines(s)
    IN  Join(Newline, SubSeq(lines, 1, k - 1) \o <<toc>>
                          \o SubSeq(lines, k, Len(lines)))

\* C27: for content in which the heading scan finds a heading,
\* create_table_of_contents returns the lines of the content, all of them and
\* in their order, with the table-of-contents block put just before the line
\* of the first heading the scan reported.
C27_TocBeforeFirstHeading ==
    (dpc = "toc" /\ TitleMatches(document) # {}) =>
        \E k \in FirstHeadingLines(document) :
            toc_out = WithBlockBefore(document,
                                      Join(Newline, TocLines(FindTitles(document))), k)

(***************************************************************************)
(* Properties of the layout of the written document                        *)
(***************************************************************************)

\* the front matter of the pipeline with its line break: "---", the four
\* "key: value" lines, "---"
PipelineFrontMatter ==
    Join(Newline, <<FrontMatterFence>>
                      \o [i \in 1..Len(PipelineMetadata) |->
                             MetadataLine(PipelineMetadata[i])]
                      \o <<FrontMatterFence, <<>>>>)

\* C28: with metadata and table of contents enabled, the document that
\* translate_pdf assembles from a non-empty generated text begins with the
\* front matter; what follows is the generated text, all of it, and when it
\* has a heading the table-of-contents block stands in it just before its
\* first heading, so never inside or before the front matter.
C28_FrontMatterTocSections ==
    (DocumentAssembled /\ include_metadata /\ include_toc /\ assembled # <<>>) =>
        LET body == PySliceFrom(final_content, Len(PipelineFrontMatter))
        IN  /\ StartsWithAt(final_content, PipelineFrontMatter, 1)
            /\ IF TitleMatches(assembled) = {} THEN body = assembled
               ELSE \E k \in FirstHeadingLines(assembled) :
                        body = WithBlockBefore(assembled,
                                   Join(Newline, TocLines(FindTitles(assembled))), k)

(***************************************************************************)
(* Properties of the chunker the pipeline constructs                       *)
(***************************************************************************)

\* C29: with any chunk_size > 0 and the default overlap_size, create_chunks
\* ends on every text, and no chunk it collects is empty.
C29_PipelineChunkerTerminates ==
    /\ [](\A i \in 1..Len(chunks) : chunks[i] # <<>>)
    /\ (pc = "loop" ~> pc = "done")

(***************************************************************************)
(* Properties of the deletion of a running task                            *)
(***************************************************************************)

\* C30: however the statements of delete_task interleave with those of
\* run_translation_task for the same task, the background task ends without
\* an exception that nothing handles, and once both have ended neither tasks
\* nor task_logs holds an entry for the deleted task.
C30_DeleteLeavesNoTrace ==
    /\ task_outcome # "raised"
    /\ (rpc = "done" /\ response = "deleted" /\ wpc = "end") =>
          /\ TaskId \notin DOMAIN tasks
          /\ TaskId \notin DOMAIN task_logs

====
